---- MODULE Spec2Model ----
(***************************************************************************)
(* FFTCGSim card-data tooling: the card fetch / merge / image-mapping      *)
(* scripts, modelled as runs over the two JSON files they share            *)
(* (js/data/fftcg_real_cards.json and js/data/card_image_mapping.json),    *)
(* together with the pure helpers they call (image URL resolvers, field    *)
(* normalizers).                                                           *)
(*                                                                         *)
(* Python strings whose characters matter (card ids, raw field values) are *)
(* sequences of character codes, so that the regular expressions, lower(), *)
(* isdigit() and the tuple sort are computed character by character.       *)
(***************************************************************************)
EXTENDS Integers, Sequences, FiniteSets, TLC

(***************************************************************************)
(* Bounds of the model                                                     *)
(***************************************************************************)
\* longest card id drawn for the resolver specification
MaxIdLen == 4

(***************************************************************************)
(* Strings                                                                 *)
(***************************************************************************)
\* '0'..'9'
IsDigit(c) == c \in 48..57

\* 'A'..'Z', the class [A-Z] of the resolvers' re.sub
IsUpper(c) == c \in 65..90

\* 'a'..'z'
IsLower(c) == c \in 97..122

\* every string over the alphabet A of length at most n
RECURSIVE StringsUpTo(_, _)
StringsUpTo(A, n) ==
    IF n = 0 THEN {<<>>}
    ELSE LET shorter == StringsUpTo(A, n - 1)
         IN  shorter \cup {Append(s, c) : s \in {t \in shorter : Len(t) = n - 1}, c \in A}

\* s.startswith(p)
StartsWith(s, p) == Len(s) >= Len(p) /\ SubSeq(s, 1, Len(p)) = p

\* number of leading decimal digits of s: what \d+ consumes at position 0
RECURSIVE LeadingDigits(_)
LeadingDigits(s) ==
    IF s = <<>> \/ ~IsDigit(Head(s)) THEN 0 ELSE 1 + LeadingDigits(Tail(s))

\* int(digits) for a non-empty string of decimal digits
RECURSIVE IntOfDigits(_)
IntOfDigits(s) ==
    IF s = <<>> THEN 0
    ELSE 10 * IntOfDigits(SubSeq(s, 1, Len(s) - 1)) + (s[Len(s)] - 48)

\* str(n) for n >= 0
RECURSIVE StrOfNat(_)
StrOfNat(n) ==
    IF n < 10 THEN <<48 + n>> ELSE Append(StrOfNat(n \div 10), 48 + (n % 10))

\* a plausible slip: the set number is not padded
Fmt02d_NoPad(n) == StrOfNat(n)

\* f"{n:02d}": at least two digits, zero-padded on the left
Fmt02d(n) == IF n < 10 THEN <<48>> \o StrOfNat(n) ELSE StrOfNat(n)

\* re.sub(r'[A-Z]+$', '', s): drop the maximal trailing run of upper-case letters
RECURSIVE StripTrailingUpper(_)
StripTrailingUpper(s) ==
    IF s # <<>> /\ IsUpper(s[Len(s)])
    THEN StripTrailingUpper(SubSeq(s, 1, Len(s) - 1))
    ELSE s

(***************************************************************************)
(* Image URLs.  A URL is a record: the host it points at, the directory    *)
(* below the fixed base path and the file name without ".jpg".  NoURL is   *)
(* Python's None.                                                          *)
(***************************************************************************)
NoURL == [base |-> "none", dir |-> <<>>, file |-> <<>>]

\* https://storage.googleapis.com/materiahunter-prod.appspot.com/images/cards/{dir}/{file}.jpg
MateriaHunterURL(opus_dir, card_number) ==
    [base |-> "materiahunter", dir |-> opus_dir, file |-> card_number]

\* re.match(r'^(\d+)-', card_id): TRUE when it matches
OpusMatch(card_id) ==
    LET k == LeadingDigits(card_id)
    IN  k >= 1 /\ Len(card_id) > k /\ card_id[k + 1] = 45

\* int(opus_match.group(1))
OpusNum(card_id) == IntOfDigits(SubSeq(card_id, 1, LeadingDigits(card_id)))

\* fftcg_database_manager.get_materia_hunter_url
get_materia_hunter_url(card_id) ==
    IF OpusMatch(card_id) /\ 1 <= OpusNum(card_id) /\ OpusNum(card_id) <= 19
    THEN MateriaHunterURL(Fmt02d(OpusNum(card_id)), StripTrailingUpper(card_id))
    ELSE NoURL

\* update_image_mapping.get_materia_hunter_opus_directory (<<>> is None)
upd_get_materia_hunter_opus_directory(card_id) ==
    IF OpusMatch(card_id) /\ 1 <= OpusNum(card_id) /\ OpusNum(card_id) <= 19
    THEN Fmt02d(OpusNum(card_id))
    ELSE <<>>

\* update_image_mapping.generate_materia_hunter_url
upd_generate_materia_hunter_url(card_id) ==
    LET opus_dir == upd_get_materia_hunter_opus_directory(card_id)
    IN  IF opus_dir = <<>> THEN NoURL
        ELSE MateriaHunterURL(opus_dir, StripTrailingUpper(card_id))

\* generate_materia_hunter_mapping.get_materia_hunter_opus_directory:
\* 'boss' for "B-", 'promo' for "PR-", any set number, no range test
gen_get_materia_hunter_opus_directory(card_id) ==
    IF StartsWith(card_id, <<66, 45>>) THEN <<98, 111, 115, 115>>
    ELSE IF StartsWith(card_id, <<80, 82, 45>>) THEN <<112, 114, 111, 109, 111>>
    ELSE IF OpusMatch(card_id) THEN Fmt02d(OpusNum(card_id))
    ELSE <<>>

\* generate_materia_hunter_mapping.generate_materia_hunter_url
gen_generate_materia_hunter_url(card_id) ==
    LET opus_dir == gen_get_materia_hunter_opus_directory(card_id)
    IN  IF opus_dir = <<>> THEN NoURL
        ELSE MateriaHunterURL(opus_dir, StripTrailingUpper(card_id))

(***************************************************************************)
(* Raw JSON values.  A value of a raw card record is a record               *)
(*   [t |-> type tag, s |-> payload, l |-> list items]                      *)
(* t = "absent": the key is missing; "null": JSON null; "str": s holds the  *)
(* characters; "int": s = <<n>>; "list": l holds the items.                 *)
(***************************************************************************)
Absent == [t |-> "absent", s |-> <<>>, l |-> <<>>]
Null == [t |-> "null", s |-> <<>>, l |-> <<>>]
Str(chars) == [t |-> "str", s |-> chars, l |-> <<>>]
Int_(n) == [t |-> "int", s |-> <<n>>, l |-> <<>>]
List(items) == [t |-> "list", s |-> <<>>, l |-> items]

\* bool(v); a missing key read with .get(key) is None
Truthy(v) ==
    CASE v.t = "str" -> v.s # <<>>
      [] v.t = "int" -> v.s[1] # 0
      [] v.t = "list" -> v.l # <<>>
      [] OTHER -> FALSE

\* dict.get(key, default)
Get(v, default) == IF v.t = "absent" THEN default ELSE v

\* s.lower() and s.upper() (the ideographs have no case)
Lower(s) == [i \in 1..Len(s) |-> IF IsUpper(s[i]) THEN s[i] + 32 ELSE s[i]]
Upper(s) == [i \in 1..Len(s) |-> IF IsLower(s[i]) THEN s[i] - 32 ELSE s[i]]

\* s.isdigit() over the ASCII alphabet of the model
IsDigitStr(s) == s # <<>> /\ \A i \in 1..Len(s) : IsDigit(s[i])

\* str(v); of a list only the brackets are kept: all that is read of it is
\* that it is not made of digits
PyStr(v) ==
    CASE v.t = "str" -> v.s
      [] v.t = "int" -> IF v.s[1] < 0 THEN <<45>> \o StrOfNat(-v.s[1]) ELSE StrOfNat(v.s[1])
      [] v.t = "list" -> <<91, 93>>
      [] OTHER -> <<78, 111, 110, 101>>

\* the outcome of evaluating an expression: a value, or an exception
Ok(v) == [raised |-> FALSE, v |-> v]
Raised == [raised |-> TRUE, v |-> <<>>]

Unknown == <<117, 110, 107, 110, 111, 119, 110>>

\* the keys of the element mapping dict
ElementKeys ==
    {<<28779>>, <<27703>>, <<39080>>, <<38647>>, <<27700>>, <<22303>>, <<20809>>, <<38343>>}

\* mapping[element_jp]
ElementTable(k) ==
    CASE k = <<28779>> -> <<102, 105, 114, 101>>
      [] k = <<27703>> -> <<105, 99, 101>>
      [] k = <<39080>> -> <<119, 105, 110, 100>>
      [] k = <<38647>> -> <<108, 105, 103, 104, 116, 110, 105, 110, 103>>
      [] k = <<27700>> -> <<119, 97, 116, 101, 114>>
      [] k = <<22303>> -> <<101, 97, 114, 116, 104>>
      [] k = <<20809>> -> <<108, 105, 103, 104, 116>>
      [] k = <<38343>> -> <<100, 97, 114, 107>>

\* mapping.get(x, x.lower()): the default is evaluated first, so a value
\* without lower() raises AttributeError
MappingGetLower(x) ==
    IF x.t # "str" THEN Raised
    ELSE IF x.s \in ElementKeys THEN Ok(ElementTable(x.s))
    ELSE Ok(Lower(x.s))

\* element_mapping of fftcg_database_manager.py and fetch_missing_sets.py
element_mapping(element_jp) ==
    IF ~Truthy(element_jp) THEN Ok(Unknown) ELSE MappingGetLower(element_jp)

\* element_mapping of fetch_fftcg_data.py: no guard
ffd_element_mapping(element_jp) == MappingGetLower(element_jp)

\* type_mapping of fftcg_database_manager.py and fetch_missing_sets.py; every
\* value of its dict is the lower-cased key
type_mapping(type_en) ==
    IF ~Truthy(type_en) THEN Ok(Unknown)
    ELSE IF type_en.t # "str" THEN Raised
    ELSE Ok(Lower(type_en.s))

\* type_mapping of fetch_fftcg_data.py: no guard
ffd_type_mapping(type_en) ==
    IF type_en.t # "str" THEN Raised ELSE Ok(Lower(type_en.s))

\* safe_int: int(value) if value and str(value).isdigit() else default, any
\* exception giving default
safe_int(value, default) ==
    IF ~Truthy(value) THEN default
    ELSE IF ~IsDigitStr(PyStr(value)) THEN default
    ELSE IF value.t = "str" THEN IntOfDigits(value.s)
    ELSE value.s[1]

(***************************************************************************)
(* Canonical card records.  job, category and text are copied verbatim by  *)
(* every normalizer and are left out; power is <<>> for None, <<n>> for n.  *)
(***************************************************************************)
SquareApi == "square-api"

Card(id, name, element, type, cost, power, rarity, set_name, image) ==
    [id |-> id, name |-> name, element |-> element, type |-> type, cost |-> cost,
     power |-> power, rarity |-> rarity, set |-> set_name, cardNumber |-> id,
     image |-> image, source |-> SquareApi, hasRealImage |-> TRUE]

\* name_en of a raw record without the key
AbsentName == "<absent>"

\* card_data.get("name_en", default)
GetName(card_data, default) ==
    IF card_data.name_en = AbsentName THEN default ELSE card_data.name_en

\* card_data.get("code", "unknown")
GetCode(card_data) == IF card_data.code.t = "absent" THEN Unknown ELSE card_data.code.s

\* lines 97-99 of fetch_set_data: element = "unknown" unless the raw element
\* is truthy and has a length; then element_mapping of its item 0 (the first
\* character, when the raw value is a string)
mgr_element(card_data) ==
    LET e == card_data.element
    IN  IF ~Truthy(e) THEN Ok(Unknown)
        ELSE IF e.t = "int" THEN Raised
        ELSE IF e.t = "str" THEN element_mapping(Str(<<e.s[1]>>))
        ELSE element_mapping(e.l[1])

\* lines 118-119: the image is images["full"][0] when there is one.  The raw
\* images value is "absent", "null", "nofull" (a dict without "full"),
\* "empty" ("full": []) or "full" ("full": [image_url])
mgr_image(card_data) ==
    CASE card_data.images = "null" -> Raised
      [] card_data.images = "full" -> Ok(card_data.image_url)
      [] OTHER -> Ok(NoURL)

\* str(card_data.get("rarity", "C")).upper()
mgr_rarity(card_data) == Upper(PyStr(Get(card_data.rarity, Str(<<67>>))))

\* safe_int(power) if power else None
mgr_power(card_data) ==
    IF Truthy(card_data.power) THEN <<safe_int(card_data.power, 0)>> ELSE <<>>

\* the body of the per-card try of fftcg_database_manager.fetch_set_data:
\* the card, or Raised when the except clause skips the record
mgr_normalize(card_data, set_name) ==
    LET element == mgr_element(card_data)
        type == type_mapping(Get(card_data.type_en, Str(<<>>)))
        image == mgr_image(card_data)
    IN  IF element.raised \/ type.raised \/ image.raised THEN Raised
        ELSE Ok(Card(GetCode(card_data), GetName(card_data, ""), element.v, type.v,
                     safe_int(card_data.cost, 0), mgr_power(card_data),
                     mgr_rarity(card_data), set_name, image.v))

\* rarity_mapping of fetch_missing_sets.py on card_data.get("rarity")
fms_rarity_mapping(rarity) == IF ~Truthy(rarity) THEN <<67>> ELSE Upper(PyStr(rarity))

\* the body of the per-card try of fetch_missing_sets.fetch_set_data: as the
\* database manager's, but for the rarity
fms_normalize(card_data, set_name) ==
    LET element == mgr_element(card_data)
        type == type_mapping(Get(card_data.type_en, Str(<<>>)))
        image == mgr_image(card_data)
    IN  IF element.raised \/ type.raised \/ image.raised THEN Raised
        ELSE Ok(Card(GetCode(card_data), GetName(card_data, ""), element.v, type.v,
                     safe_int(card_data.cost, 0), mgr_power(card_data),
                     fms_rarity_mapping(card_data.rarity), set_name, image.v))

\* fetch_fftcg_data.py line 83: card_data["element"] is subscripted, not read
\* with get
ffd_element(card_data) ==
    LET e == card_data.element
    IN  IF e.t = "absent" THEN Raised
        ELSE IF ~Truthy(e) THEN Ok(Unknown)
        ELSE IF e.t = "int" THEN Raised
        ELSE IF e.t = "str" THEN ffd_element_mapping(Str(<<e.s[1]>>))
        ELSE ffd_element_mapping(e.l[1])

\* fetch_fftcg_data.py lines 85-86: int(x) if card_data.get(key, "").isdigit()
\* else default; isdigit is a method of str only
ffd_int(value, default) ==
    LET x == Get(value, Str(<<>>))
    IN  IF x.t # "str" THEN Raised
        ELSE IF IsDigitStr(x.s) THEN Ok(<<IntOfDigits(x.s)>>)
        ELSE Ok(default)

\* fetch_fftcg_data.py line 89: rarity_mapping(card_data.get("rarity", ""))
ffd_rarity_mapping(card_data) ==
    LET r == Get(card_data.rarity, Str(<<>>))
    IN  IF r.t # "str" THEN Raised ELSE Ok(Upper(r.s))

\* fetch_fftcg_data.py lines 98-99: no test that "full" is non-empty
ffd_image(card_data) ==
    CASE card_data.images \in {"null", "empty"} -> Raised
      [] card_data.images = "full" -> Ok(card_data.image_url)
      [] OTHER -> Ok(NoURL)

\* fetch_fftcg_data.fetch_set_data, one record: no per-card try, an exception
\* leaves the loop
ffd_normalize(card_data, set_name) ==
    LET element == ffd_element(card_data)
        type == ffd_type_mapping(Get(card_data.type_en, Str(<<>>)))
        cost == ffd_int(card_data.cost, <<0>>)
        power == ffd_int(card_data.power, <<>>)
        rarity == ffd_rarity_mapping(card_data)
        image == ffd_image(card_data)
    IN  IF \/ card_data.code.t = "absent"
           \/ element.raised \/ type.raised \/ cost.raised
           \/ power.raised \/ rarity.raised \/ image.raised
        THEN Raised
        ELSE Ok(Card(card_data.code.s, GetName(card_data, ""), element.v, type.v,
                     cost.v[1], power.v, rarity.v, set_name, image.v))

\* int(x) of extract_all_cards.py: an int is itself, a string of digits its
\* value, anything else raises (TypeError for None and lists, ValueError for
\* the other strings of the model's alphabet)
eac_int(x) ==
    IF x.t = "int" THEN Ok(x.s[1])
    ELSE IF x.t = "str" /\ IsDigitStr(x.s) THEN Ok(IntOfDigits(x.s))
    ELSE Raised

\* extract_all_cards.py lines 64-79
eac_element(square_card) ==
    LET e == Get(square_card.element, List(<<Str(Unknown)>>))
        first == IF e.t = "list" THEN (IF e.l # <<>> THEN e.l[1] ELSE Str(Unknown)) ELSE e
    IN  MappingGetLower(first)

\* extract_all_cards.py lines 82-91: the "image" value is "absent", "json" (a
\* JSON string with a filename under "1"), "nofilename" or "malformed"
eac_image(square_card) ==
    IF square_card.image = "json"
    THEN [base |-> "square-enix", dir |-> <<>>, file |-> square_card.image_url.file]
    ELSE NoURL

\* extract_all_cards.convert_to_app_format; a rarity that is not a string is
\* kept as it is (written here as its str())
convert_to_app_format(square_card, set_name) ==
    LET element == eac_element(square_card)
        t == Get(square_card.type_en, Str(Unknown))
        cost == eac_int(Get(square_card.cost, Int_(0)))
        power == IF Truthy(square_card.power) THEN eac_int(square_card.power) ELSE Ok(0)
    IN  IF element.raised \/ t.t # "str" \/ cost.raised \/ power.raised THEN Raised
        ELSE Ok(Card(GetCode(square_card), GetName(square_card, "Unknown"), element.v,
                     Lower(t.s), cost.v,
                     IF Truthy(square_card.power) THEN <<power.v>> ELSE <<>>,
                     PyStr(Get(square_card.rarity, Str(<<67>>))), set_name,
                     eac_image(square_card)))

(***************************************************************************)
(* API responses and fetch_set_data.  A response is                        *)
(*   [kind |-> "error" | "nocards" | "cards", cards |-> raw records]       *)
(* "error": the request raised or raise_for_status did; "nocards": the     *)
(* JSON has no "cards" key.                                                 *)
(***************************************************************************)
\* the cards of the records that normalize without an exception, in order
RECURSIVE mgr_convert(_, _)
mgr_convert(raw_cards, set_name) ==
    IF raw_cards = <<>> THEN <<>>
    ELSE LET r == mgr_normalize(Head(raw_cards), set_name)
         IN  (IF r.raised THEN <<>> ELSE <<r.v>>) \o mgr_convert(Tail(raw_cards), set_name)

\* fftcg_database_manager.fetch_set_data
mgr_fetch_set_data(response, set_name) ==
    IF response.kind # "cards" THEN <<>> ELSE mgr_convert(response.cards, set_name)

RECURSIVE fms_convert(_, _)
fms_convert(raw_cards, set_name) ==
    IF raw_cards = <<>> THEN <<>>
    ELSE LET r == fms_normalize(Head(raw_cards), set_name)
         IN  (IF r.raised THEN <<>> ELSE <<r.v>>) \o fms_convert(Tail(raw_cards), set_name)

\* fetch_missing_sets.fetch_set_data
fms_fetch_set_data(response, set_name) ==
    IF response.kind # "cards" THEN <<>> ELSE fms_convert(response.cards, set_name)

\* fetch_fftcg_data.fetch_set_data: one exception and the set yields []
ffd_fetch_set_data(response, set_name) ==
    IF response.kind # "cards" THEN <<>>
    ELSE IF \E i \in 1..Len(response.cards) : ffd_normalize(response.cards[i], set_name).raised
    THEN <<>>
    ELSE [i \in 1..Len(response.cards) |-> ffd_normalize(response.cards[i], set_name).v]

(***************************************************************************)
(* The merge step and the image mapping                                    *)
(***************************************************************************)
\* a < b for Python strings: by code point, a proper prefix first
RECURSIVE LexLess(_, _)
LexLess(a, b) ==
    IF b = <<>> THEN FALSE
    ELSE IF a = <<>> THEN TRUE
    ELSE IF Head(a) # Head(b) THEN Head(a) < Head(b)
    ELSE LexLess(Tail(a), Tail(b))

\* (x["set"], x["cardNumber"]) < (y["set"], y["cardNumber"])
KeyLess(x, y) ==
    LexLess(x.set, y.set) \/ (x.set = y.set /\ LexLess(x.cardNumber, y.cardNumber))

\* x put into the sorted list after every card whose key is not greater
InsertCard(sorted, x) ==
    LET later == {i \in 1..Len(sorted) : KeyLess(x, sorted[i])}
        k == IF later = {} THEN Len(sorted) + 1
             ELSE CHOOSE i \in later : \A j \in later : i <= j
    IN  SubSeq(sorted, 1, k - 1) \o <<x>> \o SubSeq(sorted, k, Len(sorted))

\* a plausible slip: the list is written in the order it was built
SortCards_Unsorted(cards) == cards

\* cards.sort(key=lambda x: (x["set"], x["cardNumber"])): a stable sort
RECURSIVE SortCards(_)
SortCards(cards) ==
    IF cards = <<>> THEN <<>>
    ELSE InsertCard(SortCards(SubSeq(cards, 1, Len(cards) - 1)), cards[Len(cards)])

\* a plausible slip: the last occurrence of an id is kept
RECURSIVE Dedup_LastWins(_)
Dedup_LastWins(all_cards) ==
    IF all_cards = <<>> THEN <<>>
    ELSE LET rest == Tail(all_cards)
         IN  IF \E i \in 1..Len(rest) : rest[i].id = Head(all_cards).id
             THEN Dedup_LastWins(rest)
             ELSE <<Head(all_cards)>> \o Dedup_LastWins(rest)

\* the seen_ids loop: the first card of every id, in order
RECURSIVE Dedup(_)
Dedup(all_cards) ==
    IF all_cards = <<>> THEN <<>>
    ELSE LET n == Len(all_cards)
             front == SubSeq(all_cards, 1, n - 1)
         IN  IF \E i \in 1..(n - 1) : all_cards[i].id = all_cards[n].id
             THEN Dedup(front)
             ELSE Append(Dedup(front), all_cards[n])

\* the merge of fetch_missing_sets: existing + new, deduplicated, sorted
MergeCards(existing_cards, new_cards) == SortCards(Dedup(existing_cards \o new_cards))

MateriaHunter == "materia-hunter"
SquareEnix == "square-enix"

Entry(name, image, source) == [name |-> name, image |-> image, source |-> source]

\* new_mappings[card_id] = entry
Put(new_mappings, card_id, entry) ==
    [k \in DOMAIN new_mappings \cup {card_id} |->
        IF k = card_id THEN entry ELSE new_mappings[k]]

\* the empty dict
EmptyMap == [k \in {} |-> Entry("", NoURL, SquareEnix)]

\* a plausible slip: an existing MateriaHunter entry is rebuilt from the card
mgr_map_card_Rebuild(new_mappings, existing_mapping, card) ==
    LET materia_url == get_materia_hunter_url(card.id)
    IN  IF materia_url # NoURL
        THEN Put(new_mappings, card.id, Entry(card.name, materia_url, MateriaHunter))
        ELSE IF card.image # NoURL
        THEN Put(new_mappings, card.id, Entry(card.name, card.image, SquareEnix))
        ELSE new_mappings

\* a plausible slip: the pass of an existing MateriaHunter entry goes on to
\* the next card without the copy of the entry
mgr_map_card_ContinueWithoutCopy(new_mappings, existing_mapping, card) ==
    LET materia_url == get_materia_hunter_url(card.id)
    IN  IF card.id \in DOMAIN existing_mapping
           /\ existing_mapping[card.id].source = MateriaHunter
        THEN new_mappings
        ELSE IF materia_url # NoURL
        THEN Put(new_mappings, card.id, Entry(card.name, materia_url, MateriaHunter))
        ELSE IF card.image # NoURL
        THEN Put(new_mappings, card.id, Entry(card.name, card.image, SquareEnix))
        ELSE new_mappings

\* one pass of the loop of fftcg_database_manager.update_image_mappings
mgr_map_card(new_mappings, existing_mapping, card) ==
    LET materia_url == get_materia_hunter_url(card.id)
    IN  IF card.id \in DOMAIN existing_mapping
           /\ existing_mapping[card.id].source = MateriaHunter
        THEN Put(new_mappings, card.id, existing_mapping[card.id])
        ELSE IF materia_url # NoURL
        THEN Put(new_mappings, card.id, Entry(card.name, materia_url, MateriaHunter))
        ELSE IF card.image # NoURL
        THEN Put(new_mappings, card.id, Entry(card.name, card.image, SquareEnix))
        ELSE new_mappings

\* the loop of fftcg_database_manager.update_image_mappings
RECURSIVE mgr_new_mappings(_, _)
mgr_new_mappings(cards, existing_mapping) ==
    IF cards = <<>> THEN EmptyMap
    ELSE mgr_map_card(mgr_new_mappings(SubSeq(cards, 1, Len(cards) - 1), existing_mapping),
                      existing_mapping, cards[Len(cards)])

\* one pass of the loop of update_image_mapping.main
upd_map_card(new_mappings, existing_mapping, card) ==
    LET materia_url == upd_generate_materia_hunter_url(card.id)
    IN  IF card.id \in DOMAIN existing_mapping
           /\ existing_mapping[card.id].source = MateriaHunter
        THEN Put(new_mappings, card.id, existing_mapping[card.id])
        ELSE IF materia_url # NoURL
        THEN Put(new_mappings, card.id, Entry(card.name, materia_url, MateriaHunter))
        ELSE IF card.image # NoURL
        THEN Put(new_mappings, card.id, Entry(card.name, card.image, SquareEnix))
        ELSE new_mappings

\* the loop of update_image_mapping.main
RECURSIVE upd_new_mappings(_, _)
upd_new_mappings(cards, existing_mapping) ==
    IF cards = <<>> THEN EmptyMap
    ELSE upd_map_card(upd_new_mappings(SubSeq(cards, 1, Len(cards) - 1), existing_mapping),
                      existing_mapping, cards[Len(cards)])

\* one pass of the loop of generate_materia_hunter_mapping.main: any existing
\* entry is kept, whatever its source
gen_map_card(new_mappings, existing_mapping, card) ==
    LET materia_url == gen_generate_materia_hunter_url(card.id)
    IN  IF card.id \in DOMAIN existing_mapping
        THEN Put(new_mappings, card.id, existing_mapping[card.id])
        ELSE IF materia_url # NoURL
        THEN Put(new_mappings, card.id, Entry(card.name, materia_url, MateriaHunter))
        ELSE IF card.image # NoURL
        THEN Put(new_mappings, card.id, Entry(card.name, card.image, SquareEnix))
        ELSE new_mappings

\* the loop of generate_materia_hunter_mapping.main
RECURSIVE gen_new_mappings(_, _)
gen_new_mappings(cards, existing_mapping) ==
    IF cards = <<>> THEN EmptyMap
    ELSE gen_map_card(gen_new_mappings(SubSeq(cards, 1, Len(cards) - 1), existing_mapping),
                      existing_mapping, cards[Len(cards)])

(***************************************************************************)
(* State                                                                   *)
(***************************************************************************)
VARIABLES
    \* js/data/fftcg_real_cards.json: [exists, cards]
    cards_file,
    \* js/data/card_image_mapping.json: [exists, map]
    mapping_file,
    \* where the running script is: "idle" (none runs), "fetch" (in the loop
    \* over the sets), "saved" (past the write of the card file)
    pc,
    \* the running script: "fetch-all", "fetch-missing" (database manager) or
    \* "fetch-missing-script" (fetch_missing_sets.py)
    run,
    \* the sets still to fetch, and the sets requested so far, in order
    todo, requested,
    \* the sets whose request raised or got a non-2xx answer, in order
    failed,
    \* existing_cards, as loaded when the merge run started
    existing_cards,
    \* all_cards / new_cards: what the loop has collected so far
    fetched,
    \* how the last script ended: "ok", or "error" (uncaught exception)
    last_exit,
    \* resolver specification: the id under test, how many resolvers have
    \* run on it, and what each returned
    card_id, url_step, url_mgr, url_upd, url_gen,
    \* normalizer specification: the raw record under test, how many
    \* normalizers have run on it, and what each gave: for the fetch scripts
    \* the list fetch_set_data returns for a response of this one record, for
    \* extract_all_cards.py the outcome of convert_to_app_format
    raw_card, norm_step, n_mgr, n_fms, n_ffd, n_eac

run_vars == <<cards_file, mapping_file, pc, run, todo, requested, failed,
              existing_cards, fetched, last_exit>>

url_vars == <<card_id, url_step, url_mgr, url_upd, url_gen>>

norm_vars == <<raw_card, norm_step, n_mgr, n_fms, n_ffd, n_eac>>

vars == <<cards_file, mapping_file, pc, run, todo, requested, failed, existing_cards,
          fetched, last_exit, card_id, url_step, url_mgr, url_upd, url_gen,
          raw_card, norm_step, n_mgr, n_fms, n_ffd, n_eac>>

\* a value no resolver returns: the resolver has not run yet
NotRun == [base |-> "not-run", dir |-> <<>>, file |-> <<>>]

\* no script has touched the data directory, no script runs
RunIdle ==
    /\ cards_file = [exists |-> FALSE, cards |-> <<>>]
    /\ mapping_file = [exists |-> FALSE, map |-> EmptyMap]
    /\ pc = "idle"
    /\ run = "none"
    /\ todo = <<>>
    /\ requested = <<>>
    /\ failed = <<>>
    /\ existing_cards = <<>>
    /\ fetched = <<>>
    /\ last_exit = "ok"

\* the resolver specification is not in use
UrlIdle ==
    /\ card_id = <<>>
    /\ url_step = 0
    /\ url_mgr = NotRun
    /\ url_upd = NotRun
    /\ url_gen = NotRun

\* the normalizer specification is not in use
NormIdle ==
    /\ raw_card = <<>>
    /\ norm_step = 0
    /\ n_mgr = <<>>
    /\ n_fms = <<>>
    /\ n_ffd = <<>>
    /\ n_eac = Raised

(***************************************************************************)
(* The inputs of the runs                                                  *)
(***************************************************************************)
\* most raw records of one API response
MaxResp == 1

\* "Opus V" and "Opus IX": two entries of ALL_SETS, in its order (which is
\* not the order of the sort)
OpusV == <<79, 112, 117, 115, 32, 86>>
OpusIX == <<79, 112, 117, 115, 32, 73, 88>>
ALL_SETS == <<OpusV, OpusIX>>

\* the set lists given to --fetch-missing
MissingSetLists == {<<OpusV>>, <<OpusIX>>, <<OpusIX, OpusV>>}

\* MISSING_SETS of fetch_missing_sets.py, cut to one entry
MISSING_SETS == <<OpusIX>>

\* "3-040R" has a MateriaHunter directory for every resolver, "20-001C" for
\* generate_materia_hunter_mapping.py only
Id_3_040R == <<51, 45, 48, 52, 48, 82>>
Id_20_001C == <<50, 48, 45, 48, 48, 49, 67>>

\* the image URL the API gives for a card
SquareURL(code) == [base |-> "square-enix", dir |-> <<>>, file |-> code]

\* a well-formed raw record: a fire forward of cost 3
RawCard(code, name, images) ==
    [code |-> Str(code), name_en |-> name,
     element |-> List(<<Str(<<28779>>)>>),
     type_en |-> Str(<<70, 111, 114, 119, 97, 114, 100>>),
     cost |-> Str(<<51>>), power |-> Str(<<55, 48, 48, 48>>), rarity |-> Str(<<82>>),
     images |-> images, image_url |-> SquareURL(code), image |-> "absent"]

\* a record the per-card try of fetch_set_data skips: type_en is a number
MalformedCard ==
    [RawCard(Id_3_040R, "Cloud", "full") EXCEPT !.type_en = Int_(5)]

\* the raw records the API answers with
RawPool ==
    {RawCard(Id_3_040R, "Cloud", "full"), RawCard(Id_20_001C, "Cloud", "full"),
     RawCard(Id_20_001C, "Tifa", "absent"), MalformedCard}

Responses ==
    {[kind |-> "error", cards |-> <<>>], [kind |-> "nocards", cards |-> <<>>]}
    \cup {[kind |-> "cards", cards |-> cs] : cs \in StringsUpTo(RawPool, MaxResp)}

IsMgrRun == run \in {"fetch-all", "fetch-missing"}

(***************************************************************************)
(* The runs                                                                *)
(***************************************************************************)
\* fftcg_database_manager.py --fetch-all: fetch_all_sets begins
StartFetchAll ==
    /\ pc = "idle"
    /\ pc' = "fetch"
    /\ run' = "fetch-all"
    /\ todo' = ALL_SETS
    /\ requested' = <<>>
    /\ failed' = <<>>
    /\ existing_cards' = <<>>
    /\ fetched' = <<>>
    /\ UNCHANGED <<cards_file, mapping_file, last_exit>>
    /\ UNCHANGED <<url_vars, norm_vars>>

\* a missing card file is read as an empty collection
load_existing_cards_EmptyWhenMissing ==
    IF cards_file.exists THEN Ok(cards_file.cards) ELSE Ok(<<>>)

\* open and json.load of the card file at the start of a merge run: the
\* cards, or the exception that the except clause turns into a return
load_existing_cards ==
    IF cards_file.exists THEN Ok(cards_file.cards) ELSE Raised

\* fftcg_database_manager.py --fetch-missing: fetch_missing_sets loads the
\* card file and begins.  Without the file it returns [] at once, with no set
\* fetched and nothing written, and main goes on to update_image_mappings
StartFetchMissing ==
    /\ pc = "idle"
    /\ \E missing_sets \in MissingSetLists :
        IF ~load_existing_cards.raised
        THEN /\ pc' = "fetch"
             /\ todo' = missing_sets
             /\ existing_cards' = load_existing_cards.v
        ELSE /\ pc' = "saved"
             /\ todo' = <<>>
             /\ existing_cards' = <<>>
    /\ run' = "fetch-missing"
    /\ requested' = <<>>
    /\ failed' = <<>>
    /\ fetched' = <<>>
    /\ UNCHANGED <<cards_file, mapping_file, last_exit>>
    /\ UNCHANGED <<url_vars, norm_vars>>

\* fetch_missing_sets.py: main loads the card file and begins, or returns
StartFetchMissingScript ==
    /\ pc = "idle"
    /\ IF ~load_existing_cards.raised
       THEN /\ pc' = "fetch"
            /\ todo' = MISSING_SETS
            /\ existing_cards' = load_existing_cards.v
       ELSE /\ pc' = "saved"
            /\ todo' = <<>>
            /\ existing_cards' = <<>>
    /\ run' = "fetch-missing-script"
    /\ requested' = <<>>
    /\ failed' = <<>>
    /\ fetched' = <<>>
    /\ UNCHANGED <<cards_file, mapping_file, last_exit>>
    /\ UNCHANGED <<url_vars, norm_vars>>

\* a request that fails ends the loop
RestOfLoop_StopOnFailure(response, sets) ==
    IF response.kind = "error" THEN <<>> ELSE Tail(sets)

\* the sets left to the loop "for set_name in ..." once the request for the
\* first of them was answered: the loop goes on, whatever the answer
RestOfLoop(response, sets) == Tail(sets)

\* one pass of the loop over the sets: fetch_set_data, then extend
FetchSet ==
    /\ pc = "fetch"
    /\ todo # <<>>
    /\ \E response \in Responses :
        LET set_name == Head(todo)
            cards == IF IsMgrRun THEN mgr_fetch_set_data(response, set_name)
                     ELSE fms_fetch_set_data(response, set_name)
        IN  /\ fetched' = fetched \o cards
            /\ failed' = IF response.kind = "error" THEN Append(failed, set_name)
                          ELSE failed
            /\ todo' = RestOfLoop(response, todo)
    /\ requested' = Append(requested, Head(todo))
    /\ UNCHANGED <<cards_file, mapping_file, pc, run, existing_cards, last_exit>>
    /\ UNCHANGED <<url_vars, norm_vars>>

\* fetch_all_sets after the loop: sort and write
SaveAll ==
    /\ pc = "fetch"
    /\ todo = <<>>
    /\ run = "fetch-all"
    /\ cards_file' = [exists |-> TRUE, cards |-> SortCards(fetched)]
    /\ pc' = "saved"
    /\ UNCHANGED <<mapping_file, run, todo, requested, failed, existing_cards, fetched,
                   last_exit>>
    /\ UNCHANGED <<url_vars, norm_vars>>

\* a plausible slip: the merge is written whether or not something was
\* fetched
SaveMissing_AlwaysWrites ==
    /\ pc = "fetch"
    /\ todo = <<>>
    /\ run \in {"fetch-missing", "fetch-missing-script"}
    /\ cards_file' = [exists |-> TRUE, cards |-> MergeCards(existing_cards, fetched)]
    /\ pc' = "saved"
    /\ UNCHANGED <<mapping_file, run, todo, requested, failed, existing_cards, fetched,
                   last_exit>>
    /\ UNCHANGED <<url_vars, norm_vars>>

\* fetch_missing_sets (either script) after the loop: merge and write when
\* something was fetched
SaveMissing ==
    /\ pc = "fetch"
    /\ todo = <<>>
    /\ run \in {"fetch-missing", "fetch-missing-script"}
    /\ cards_file' = IF fetched # <<>>
                     THEN [exists |-> TRUE, cards |-> MergeCards(existing_cards, fetched)]
                     ELSE cards_file
    /\ pc' = "saved"
    /\ UNCHANGED <<mapping_file, run, todo, requested, failed, existing_cards, fetched,
                   last_exit>>
    /\ UNCHANGED <<url_vars, norm_vars>>

\* the other scripts open the files where the running one left them
Finish ==
    /\ pc' = "idle"
    /\ run' = "none"
    /\ todo' = <<>>
    /\ requested' = <<>>
    /\ failed' = <<>>
    /\ existing_cards' = <<>>
    /\ fetched' = <<>>

\* json.load of the mapping file, {} when it cannot be read
LoadMapping == IF mapping_file.exists THEN mapping_file.map ELSE EmptyMap

\* main of the database manager goes on to update_image_mappings, whose
\* open() of the card file raises when there is none
UpdateImagesAfterFetch ==
    /\ pc = "saved"
    /\ IsMgrRun
    /\ IF cards_file.exists
       THEN /\ mapping_file' =
                [exists |-> TRUE, map |-> mgr_new_mappings(cards_file.cards, LoadMapping)]
            /\ last_exit' = "ok"
       ELSE /\ last_exit' = "error"
            /\ UNCHANGED mapping_file
    /\ Finish
    /\ UNCHANGED cards_file
    /\ UNCHANGED <<url_vars, norm_vars>>

\* fetch_missing_sets.py ends after the write
FinishScript ==
    /\ pc = "saved"
    /\ run = "fetch-missing-script"
    /\ Finish
    /\ last_exit' = "ok"
    /\ UNCHANGED <<cards_file, mapping_file>>
    /\ UNCHANGED <<url_vars, norm_vars>>

\* fftcg_database_manager.py --update-images
UpdateImages ==
    /\ pc = "idle"
    /\ IF cards_file.exists
       THEN /\ mapping_file' =
                [exists |-> TRUE, map |-> mgr_new_mappings(cards_file.cards, LoadMapping)]
            /\ last_exit' = "ok"
       ELSE /\ last_exit' = "error"
            /\ UNCHANGED mapping_file
    /\ UNCHANGED <<cards_file, pc, run, todo, requested, failed, existing_cards, fetched>>
    /\ UNCHANGED <<url_vars, norm_vars>>

\* update_image_mapping.py
UpdateImageMappingScript ==
    /\ pc = "idle"
    /\ IF cards_file.exists
       THEN /\ mapping_file' =
                [exists |-> TRUE, map |-> upd_new_mappings(cards_file.cards, LoadMapping)]
            /\ last_exit' = "ok"
       ELSE /\ last_exit' = "error"
            /\ UNCHANGED mapping_file
    /\ UNCHANGED <<cards_file, pc, run, todo, requested, failed, existing_cards, fetched>>
    /\ UNCHANGED <<url_vars, norm_vars>>

\* generate_materia_hunter_mapping.py
GenerateMateriaHunterMapping ==
    /\ pc = "idle"
    /\ IF cards_file.exists
       THEN /\ mapping_file' =
                [exists |-> TRUE, map |-> gen_new_mappings(cards_file.cards, LoadMapping)]
            /\ last_exit' = "ok"
       ELSE /\ last_exit' = "error"
            /\ UNCHANGED mapping_file
    /\ UNCHANGED <<cards_file, pc, run, todo, requested, failed, existing_cards, fetched>>
    /\ UNCHANGED <<url_vars, norm_vars>>

Init == RunIdle /\ UrlIdle /\ NormIdle

Next ==
    \/ StartFetchAll
    \/ StartFetchMissing
    \/ StartFetchMissingScript
    \/ FetchSet
    \/ SaveAll
    \/ SaveMissing
    \/ UpdateImagesAfterFetch
    \/ FinishScript
    \/ GenerateMateriaHunterMapping
    \/ UpdateImages
    \/ UpdateImageMappingScript

Spec == Init /\ [][Next]_vars

(***************************************************************************)
(* Claims about the runs                                                   *)
(***************************************************************************)
\* some card of the list has this id
HasId(cards, id) == \E i \in 1..Len(cards) : cards[i].id = id

\* the cards of the list with this id, in order
RECURSIVE WithId(_, _)
WithId(cards, id) ==
    IF cards = <<>> THEN <<>>
    ELSE (IF Head(cards).id = id THEN <<Head(cards)>> ELSE <<>>) \o WithId(Tail(cards), id)

\* the run is a merge run, past a write of the card file
MergeWritten ==
    /\ pc = "saved"
    /\ run \in {"fetch-missing", "fetch-missing-script"}
    /\ fetched # <<>>

\* C1: in the persisted card collection no two records have the same id
C1_PersistedIdsUnique ==
    cards_file.exists =>
        \A i, j \in 1..Len(cards_file.cards) :
            i # j => cards_file.cards[i].id # cards_file.cards[j].id

C3_ExistingRecordWins ==
    MergeWritten =>
        \A i \in 1..Len(existing_cards), j \in 1..Len(fetched) :
            (existing_cards[i].id = fetched[j].id /\ existing_cards[i] # fetched[j]) =>
                WithId(cards_file.cards, fetched[j].id)
                    = <<WithId(existing_cards, fetched[j].id)[1]>>

\* C3 witness: the merge has written, and a fetched card had the id of an
\* existing card but not its fields
C3_Witness ==
    /\ MergeWritten
    /\ \E i \in 1..Len(existing_cards), j \in 1..Len(fetched) :
        existing_cards[i].id = fetched[j].id /\ existing_cards[i] # fetched[j]

\* (a.set, a.id) <= (b.set, b.id)
PairLeq(a, b) ==
    \/ LexLess(a.set, b.set)
    \/ a.set = b.set /\ (a.id = b.id \/ LexLess(a.id, b.id))

\* C4: what the merge has written is ascending by (set, id)
C4_MergeOutputSorted ==
    MergeWritten =>
        \A i \in 1..(Len(cards_file.cards) - 1) :
            PairLeq(cards_file.cards[i], cards_file.cards[i + 1])

\* C4 witness: the merge has written, and the deduplicated list was not in
\* order before the sort
C4_Witness ==
    /\ MergeWritten
    /\ Len(cards_file.cards) >= 2
    /\ \E i \in 1..(Len(existing_cards) + Len(fetched) - 1) :
        LET all_cards == existing_cards \o fetched
        IN  ~PairLeq(all_cards[i], all_cards[i + 1])
            /\ all_cards[i].id # all_cards[i + 1].id

\* the step is a run of the image-mapping loop of the database manager or of
\* update_image_mapping.py (their resolvers agree), or of
\* generate_materia_hunter_mapping.py
StepOfUpdateImages == UpdateImagesAfterFetch \/ UpdateImages \/ UpdateImageMappingScript
StepOfGenerate == GenerateMateriaHunterMapping

\* no card of the collection with this id carries an image
NoPrimary(id) ==
    \A i \in 1..Len(cards_file.cards) :
        cards_file.cards[i].id = id => cards_file.cards[i].image = NoURL

\* the mapping file, once written, maps the id to this MateriaHunter URL
WrittenAsMateriaHunter(id, url) ==
    /\ id \in DOMAIN mapping_file'.map
    /\ mapping_file'.map[id].image = url
    /\ mapping_file'.map[id].source = MateriaHunter

\* the loaded mapping has a 'materia-hunter' entry for the id
ExistingMateriaHunter(id) ==
    id \in DOMAIN LoadMapping /\ LoadMapping[id].source = MateriaHunter

\* C7: a run of an image-mapping script that writes the mapping gives every
\* card that has no existing 'materia-hunter' entry, a MateriaHunter URL (by
\* the script's resolver) and an image of its own the MateriaHunter URL with
\* source 'materia-hunter'
C7_SecondaryPreferred ==
    [][/\ (StepOfUpdateImages /\ cards_file.exists) =>
            \A i \in 1..Len(cards_file.cards) :
                LET c == cards_file.cards[i]
                IN  (/\ ~ExistingMateriaHunter(c.id)
                     /\ get_materia_hunter_url(c.id) # NoURL
                     /\ c.image # NoURL)
                    => WrittenAsMateriaHunter(c.id, get_materia_hunter_url(c.id))
       /\ (StepOfGenerate /\ cards_file.exists) =>
            \A i \in 1..Len(cards_file.cards) :
                LET c == cards_file.cards[i]
                IN  (/\ ~ExistingMateriaHunter(c.id)
                     /\ gen_generate_materia_hunter_url(c.id) # NoURL
                     /\ c.image # NoURL)
                    => WrittenAsMateriaHunter(c.id, gen_generate_materia_hunter_url(c.id))
      ]_vars

\* C8: a run of an image-mapping script that writes the mapping leaves out
\* every card id that has neither a MateriaHunter URL (by the script's
\* resolver) nor a card image
C8_UnderivableIdOmitted ==
    [][/\ (StepOfUpdateImages /\ cards_file.exists) =>
            \A i \in 1..Len(cards_file.cards) :
                LET id == cards_file.cards[i].id
                IN  (get_materia_hunter_url(id) = NoURL /\ NoPrimary(id))
                    => id \notin DOMAIN mapping_file'.map
       /\ (StepOfGenerate /\ cards_file.exists) =>
            \A i \in 1..Len(cards_file.cards) :
                LET id == cards_file.cards[i].id
                IN  (gen_generate_materia_hunter_url(id) = NoURL /\ NoPrimary(id))
                    => id \notin DOMAIN mapping_file'.map
      ]_vars

\* the set lists the running script can have been given
RunSets ==
    CASE run = "fetch-all" -> {ALL_SETS}
      [] run = "fetch-missing" -> MissingSetLists
      [] run = "fetch-missing-script" -> {MISSING_SETS}
      [] OTHER -> {<<>>}

\* a merge run found no card file and has returned before its loop
MergeAborted ==
    /\ pc = "saved"
    /\ run \in {"fetch-missing", "fetch-missing-script"}
    /\ ~cards_file.exists

\* the set names of the list
SetsOf(sets) == {sets[i] : i \in 1..Len(sets)}

\* C14: in a run over a list of sets, the sets requested so far and the sets
\* still to fetch are the list, in its order, whatever requests have failed;
\* past the write every set was requested; a set whose request failed has
\* given no card; the cards of the other sets are in the written collection
\* (after a merge, under their ids)
C14_FailedSetSkippedRunGoesOn ==
    (pc \in {"fetch", "saved"} /\ ~MergeAborted) =>
        /\ requested \o todo \in RunSets
        /\ pc = "saved" => todo = <<>>
        /\ SetsOf(failed) \subseteq SetsOf(requested)
        /\ \A i \in 1..Len(fetched) : fetched[i].set \notin SetsOf(failed)
        /\ (pc = "saved" /\ run = "fetch-all") =>
              \A i \in 1..Len(fetched) :
                  \E j \in 1..Len(cards_file.cards) : cards_file.cards[j] = fetched[i]
        /\ MergeWritten =>
              \A i \in 1..Len(fetched) : HasId(cards_file.cards, fetched[i].id)

\* C14 witness: a fetch-all has written; the request for its first set had
\* failed, and a card of its second set is in the file
C14_Witness ==
    /\ pc = "saved"
    /\ run = "fetch-all"
    /\ failed = <<ALL_SETS[1]>>
    /\ \E j \in 1..Len(cards_file.cards) : cards_file.cards[j].set = ALL_SETS[2]

\* C15: while there is no card file, a step that starts a merge run or that
\* a merge run takes fetches no set and writes neither the card file nor the
\* mapping file
C15_MissingFileAbortsMerge ==
    [][(/\ ~cards_file.exists
        /\ \/ run \in {"fetch-missing", "fetch-missing-script"}
           \/ run' \in {"fetch-missing", "fetch-missing-script"})
       => /\ cards_file' = cards_file
          /\ mapping_file' = mapping_file
          /\ pc' # "fetch"
          /\ requested' = <<>>
          /\ fetched' = <<>>]_vars

\* C15 witness: --fetch-missing of the database manager was started without
\* a card file, and fetch_missing_sets has returned
C15_Witness ==
    /\ MergeAborted
    /\ run = "fetch-missing"
    /\ requested = <<>>
    /\ ~mapping_file.exists

\* C16: over a step that rewrites the card file, every id of a card that
\* the file held is the id of a card it holds afterwards
C16_RewriteKeepsPersistedIds ==
    [][cards_file' # cards_file =>
          \A i \in 1..Len(cards_file.cards) :
              HasId(cards_file'.cards, cards_file.cards[i].id)]_vars

\* C17: the mapping that update_image_mappings of the database manager, or
\* update_image_mapping.py, has written is the mapping that a second run over
\* the same card file writes
C17_UpdateImagesIdempotent ==
    [][/\ ((UpdateImagesAfterFetch \/ UpdateImages) /\ cards_file.exists) =>
            mgr_new_mappings(cards_file'.cards, mapping_file'.map) = mapping_file'.map
       /\ (UpdateImageMappingScript /\ cards_file.exists) =>
            upd_new_mappings(cards_file'.cards, mapping_file'.map) = mapping_file'.map
      ]_vars

\* C17 witness: no script runs, the mapping file holds a 'materia-hunter' and
\* a 'square-enix' entry, and a run of update_image_mappings would write the
\* mapping that it reads
C17_Witness ==
    /\ pc = "idle"
    /\ mapping_file.exists
    /\ \E a, b \in DOMAIN mapping_file.map :
        /\ mapping_file.map[a].source = MateriaHunter
        /\ mapping_file.map[b].source = SquareEnix
    /\ mgr_new_mappings(cards_file.cards, mapping_file.map) = mapping_file.map

\* a merge run is past its loop and no set has given a card
MergeFetchedNothing ==
    /\ pc = "saved"
    /\ run \in {"fetch-missing", "fetch-missing-script"}
    /\ cards_file.exists
    /\ fetched = <<>>

\* C19: when no set of a merge run has given a card, the card file is, past
\* the place of the write, what the run loaded at its start
C19_EmptyMergeLeavesFile ==
    MergeFetchedNothing => cards_file = [exists |-> TRUE, cards |-> existing_cards]

\* C19 witness: a merge run has requested its sets, none has given a card,
\* and the file it loaded holds two records of one id
C19_Witness ==
    /\ MergeFetchedNothing
    /\ requested # <<>>
    /\ \E i, j \in 1..Len(existing_cards) :
        i # j /\ existing_cards[i].id = existing_cards[j].id

(***************************************************************************)
(* Resolver specification: every id over IdChars up to MaxIdLen is given   *)
(* to the three resolvers of the repository in turn.                       *)
(***************************************************************************)
\* '-', '0', '1', '2', '9', 'B', 'P', 'R', 'r'
IdChars == {45, 48, 49, 50, 57, 66, 80, 82, 114}

UrlInit ==
    /\ RunIdle
    /\ NormIdle
    /\ card_id \in StringsUpTo(IdChars, MaxIdLen)
    /\ url_step = 0
    /\ url_mgr = NotRun
    /\ url_upd = NotRun
    /\ url_gen = NotRun

ResolveManager ==
    /\ url_step = 0
    /\ url_mgr' = get_materia_hunter_url(card_id)
    /\ url_step' = 1
    /\ UNCHANGED <<card_id, url_upd, url_gen>>
    /\ UNCHANGED <<run_vars, norm_vars>>

ResolveUpdateScript ==
    /\ url_step = 1
    /\ url_upd' = upd_generate_materia_hunter_url(card_id)
    /\ url_step' = 2
    /\ UNCHANGED <<card_id, url_mgr, url_gen>>
    /\ UNCHANGED <<run_vars, norm_vars>>

ResolveGenerateScript ==
    /\ url_step = 2
    /\ url_gen' = gen_generate_materia_hunter_url(card_id)
    /\ url_step' = 3
    /\ UNCHANGED <<card_id, url_mgr, url_upd>>
    /\ UNCHANGED <<run_vars, norm_vars>>

UrlNext == ResolveManager \/ ResolveUpdateScript \/ ResolveGenerateScript

SpecUrl == UrlInit /\ [][UrlNext]_vars

(***************************************************************************)
(* Normalizer specification: every raw record of RawRecords is given, as   *)
(* the one record of a response for "Opus V", to the four normalizers of   *)
(* the repository in turn.                                                 *)
(***************************************************************************)
Forward == <<70, 111, 114, 119, 97, 114, 100>>

\* the raw values tried for each key
CodeValues == {Absent, Str(Id_3_040R)}
ElementValues ==
    {Absent, Null, Str(<<28779>>), List(<<Str(<<28779>>)>>),
     List(<<Str(<<70, 105, 114, 101>>)>>), Str(<<70, 105, 114, 101>>), Int_(5)}
TypeValues == {Absent, Str(Forward), Int_(5)}
CostValues == {Absent, Null, Str(<<51>>), Str(<<88>>), Str(<<>>), Int_(7)}
PowerValues == {Absent, Str(<<55, 48, 48, 48>>), Str(<<88>>), Int_(7)}
RarityValues == {Absent, Null, Str(<<>>), Str(<<114>>)}
ImagesValues == {"absent", "null", "empty", "full"}
ImageValues == {"absent", "json"}

RawRecords ==
    {[code |-> code, name_en |-> "Cloud", element |-> element, type_en |-> type_en,
      cost |-> cost, power |-> power, rarity |-> rarity, images |-> images,
      image_url |-> SquareURL(Id_3_040R), image |-> image] :
        code \in CodeValues, element \in ElementValues, type_en \in TypeValues,
        cost \in CostValues, power \in PowerValues, rarity \in RarityValues,
        images \in ImagesValues, image \in ImageValues}

\* the API answers with this one record
OneCard(card_data) == [kind |-> "cards", cards |-> <<card_data>>]

NormInit ==
    /\ RunIdle
    /\ UrlIdle
    /\ raw_card \in RawRecords
    /\ norm_step = 0
    /\ n_mgr = <<>>
    /\ n_fms = <<>>
    /\ n_ffd = <<>>
    /\ n_eac = Raised

NormalizeManager ==
    /\ norm_step = 0
    /\ n_mgr' = mgr_fetch_set_data(OneCard(raw_card), OpusV)
    /\ norm_step' = 1
    /\ UNCHANGED <<raw_card, n_fms, n_ffd, n_eac>>
    /\ UNCHANGED <<run_vars, url_vars>>

NormalizeFetchMissing ==
    /\ norm_step = 1
    /\ n_fms' = fms_fetch_set_data(OneCard(raw_card), OpusV)
    /\ norm_step' = 2
    /\ UNCHANGED <<raw_card, n_mgr, n_ffd, n_eac>>
    /\ UNCHANGED <<run_vars, url_vars>>

NormalizeFetchData ==
    /\ norm_step = 2
    /\ n_ffd' = ffd_fetch_set_data(OneCard(raw_card), OpusV)
    /\ norm_step' = 3
    /\ UNCHANGED <<raw_card, n_mgr, n_fms, n_eac>>
    /\ UNCHANGED <<run_vars, url_vars>>

ConvertToAppFormat ==
    /\ norm_step = 3
    /\ n_eac' = convert_to_app_format(raw_card, OpusV)
    /\ norm_step' = 4
    /\ UNCHANGED <<raw_card, n_mgr, n_fms, n_ffd>>
    /\ UNCHANGED <<run_vars, url_vars>>

NormNext ==
    NormalizeManager \/ NormalizeFetchMissing \/ NormalizeFetchData \/ ConvertToAppFormat

SpecNorm == NormInit /\ [][NormNext]_vars

\* C9: every raw record gives exactly one canonical record in every
\* normalizer, and no exception
C9_OneCardPerRawRecord ==
    /\ norm_step >= 1 => Len(n_mgr) = 1
    /\ norm_step >= 2 => Len(n_fms) = 1
    /\ norm_step >= 3 => Len(n_ffd) = 1
    /\ norm_step >= 4 => ~n_eac.raised

\* the raw cost is missing, or no string of decimal digits
CostNotDigits(card_data) ==
    ~(card_data.cost.t = "str" /\ IsDigitStr(card_data.cost.s))

\* the record with a cost of "3"
WithDigitCost(card_data) == [card_data EXCEPT !.cost = Str(<<51>>)]

\* C10: a raw record whose cost is missing or no string of digits gets the
\* cost 0 from every normalizer (that gives a card for the record once its
\* cost is "3": the other fields are not what stops it)
C10_NonDigitCostIsZero ==
    CostNotDigits(raw_card) =>
        /\ (norm_step >= 1 /\ Len(mgr_fetch_set_data(OneCard(WithDigitCost(raw_card)), OpusV)) = 1)
              => (Len(n_mgr) = 1 /\ n_mgr[1].cost = 0)
        /\ (norm_step >= 2 /\ Len(fms_fetch_set_data(OneCard(WithDigitCost(raw_card)), OpusV)) = 1)
              => (Len(n_fms) = 1 /\ n_fms[1].cost = 0)
        /\ (norm_step >= 3 /\ Len(ffd_fetch_set_data(OneCard(WithDigitCost(raw_card)), OpusV)) = 1)
              => (Len(n_ffd) = 1 /\ n_ffd[1].cost = 0)
        /\ (norm_step >= 4 /\ ~convert_to_app_format(WithDigitCost(raw_card), OpusV).raised)
              => (~n_eac.raised /\ n_eac.v.cost = 0)

\* the power the record should get: the integer of a raw power made of
\* decimal digits (a JSON number counts as its digits), None otherwise
ExpectedPower(card_data) ==
    LET p == card_data.power
    IN  IF p.t = "str" /\ IsDigitStr(p.s) THEN <<IntOfDigits(p.s)>>
        ELSE IF p.t = "int" /\ p.s[1] >= 0 THEN <<p.s[1]>>
        ELSE <<>>

\* C11: the card that the database manager or fetch_missing_sets.py gives
\* for a raw record has the parsed power when the raw power is made of
\* decimal digits, and None in every other case
C11_PowerParsedOrAbsent ==
    /\ (norm_step >= 1 /\ Len(n_mgr) = 1) => n_mgr[1].power = ExpectedPower(raw_card)
    /\ (norm_step >= 2 /\ Len(n_fms) = 1) => n_fms[1].power = ExpectedPower(raw_card)

\* the token t of a raw element: its first item when it is a list, the value
\* itself when it is a scalar
ElementToken(card_data) ==
    LET e == card_data.element
    IN  IF e.t = "list" THEN e.l[1] ELSE e

\* the element the record should get
ExpectedElement(card_data) ==
    IF ~Truthy(card_data.element) THEN Unknown
    ELSE IF ElementToken(card_data).s \in ElementKeys
    THEN ElementTable(ElementToken(card_data).s)
    ELSE Lower(ElementToken(card_data).s)

\* C12: the card that the database manager or convert_to_app_format gives for
\* a raw record has the element "unknown" when the raw element is absent or
\* empty, and else the English token of the table, or the lowercased token,
\* of the first item of a list or of the scalar itself
C12_ElementTranslated ==
    (Truthy(raw_card.element) => ElementToken(raw_card).t = "str") =>
        /\ (norm_step >= 1 /\ Len(n_mgr) = 1) => n_mgr[1].element = ExpectedElement(raw_card)
        /\ (norm_step >= 4 /\ ~n_eac.raised) => n_eac.v.element = ExpectedElement(raw_card)

\* the rarity the record should get: "C" when the raw rarity is missing, null
\* or empty, the uppercased value otherwise
ExpectedRarity(card_data) ==
    IF ~Truthy(card_data.rarity) THEN <<67>> ELSE Upper(PyStr(card_data.rarity))

\* C13: the card that the database manager, fetch_missing_sets.py or
\* fetch_fftcg_data.py gives for a raw record has the uppercased raw rarity,
\* and "C" when the rarity is missing, null or empty
C13_RarityUpperOrC ==
    /\ (norm_step >= 1 /\ Len(n_mgr) = 1) => n_mgr[1].rarity = ExpectedRarity(raw_card)
    /\ (norm_step >= 2 /\ Len(n_fms) = 1) => n_fms[1].rarity = ExpectedRarity(raw_card)
    /\ (norm_step >= 3 /\ Len(n_ffd) = 1) => n_ffd[1].rarity = ExpectedRarity(raw_card)

(***************************************************************************)
(* The identifier shape <setNumber>-<cardNumber><rarityLetters>            *)
(***************************************************************************)
\* number of leading characters of s that satisfy the digit test
DigitsAt(s, from) == LeadingDigits(SubSeq(s, from, Len(s)))

\* digits, '-', digits, then only upper-case rarity letters
IsShape(id) ==
    LET n == LeadingDigits(id)
        m == DigitsAt(id, n + 2)
    IN  /\ n >= 1
        /\ Len(id) > n
        /\ id[n + 1] = 45
        /\ m >= 1
        /\ \A i \in (n + m + 2)..Len(id) : IsUpper(id[i])

\* the set number n of a shaped id, and the id cut after its card number m
ShapeSetNumber(id) == IntOfDigits(SubSeq(id, 1, LeadingDigits(id)))
ShapeBare(id) ==
    SubSeq(id, 1, LeadingDigits(id) + 1 + DigitsAt(id, LeadingDigits(id) + 2))

InRange(id) == ShapeSetNumber(id) \in 1..19

\* n written with exactly two digits (n < 100)
TwoDigits(n) == <<48 + (n \div 10), 48 + (n % 10)>>

\* C5: a shaped id with set number 1..19 resolves, in every resolver that has
\* run, to the MateriaHunter URL whose directory is the set number on two
\* digits and whose file is the id without its rarity letters
C5_SupportedIdResolves ==
    \A r \in {url_mgr, url_upd, url_gen} :
        (r # NotRun /\ IsShape(card_id) /\ InRange(card_id)) =>
            r = MateriaHunterURL(TwoDigits(ShapeSetNumber(card_id)), ShapeBare(card_id))

\* C5 witness: the resolvers have run on a shaped, supported id that carries
\* a rarity letter
C5_Witness ==
    /\ url_step = 3
    /\ IsShape(card_id) /\ InRange(card_id)
    /\ ShapeBare(card_id) # card_id

\* C6: an id that is unshaped or whose set number is outside 1..19 gets no URL
\* from any of the three resolvers
C6_UnsupportedIdHasNoUrl ==
    (url_step = 3 /\ ~(IsShape(card_id) /\ InRange(card_id))) =>
        (url_mgr = NoURL /\ url_upd = NoURL /\ url_gen = NoURL)

\* C18: once update_image_mappings of the database manager has written the
\* mapping, every entry with source 'materia-hunter' has an id whose leading
\* set number is in 1..19, and the image get_materia_hunter_url gives for it
C18_MateriaHunterEntriesResolved ==
    [][((UpdateImagesAfterFetch \/ UpdateImages) /\ cards_file.exists) =>
          \A id \in DOMAIN mapping_file'.map :
              mapping_file'.map[id].source = MateriaHunter =>
                  /\ LeadingDigits(id) >= 1
                  /\ InRange(id)
                  /\ mapping_file'.map[id].image = get_materia_hunter_url(id)]_vars

====
